---- MODULE Spec2Model ----
(***************************************************************************)
(* Upload workflow of cheesegrader.                                        *)
(*                                                                         *)
(*   src/src/workflows.py        search_dirs, upload_grades, upload_files, *)
(*                               upload, UploadMode                        *)
(*   src/src/cheesegrader/api_tools/assignments.py                         *)
(*                               QuercusAssignment.post_grade, upload_file *)
(*   src/src/quercus_course.py   QuercusCourse.upload (configuration-file  *)
(*                               path, started from src/cheesegrader.py)   *)
(*   src/src/cheesegrader/cli/uploading.py                                 *)
(*                               run, the interactive upload workflow      *)
(*   src/src/cheesegrader/cli/utils.py                                     *)
(*                               create_prompt, create_confirm             *)
(*   src/src/file_utils.py       filesorter                                *)
(*   src/src/cheesegrader/cli/token.py                                     *)
(*                               ensure_token, load_token, save_token      *)
(*   src/src/cheesegrader/api_tools/tokens.py                              *)
(*                               validate_token                            *)
(*   src/src/cheesegrader/api_tools/courses.py                             *)
(*                               remove_duplicates, QuercusCourse.students *)
(*                                                                         *)
(* A run is one call of one of the public entry points.  The arguments of  *)
(* the call are drawn in Init; every loop iteration of the callee is one   *)
(* step, and every request to the remote service ends in one of the        *)
(* outcomes the requests library can produce.                              *)
(*                                                                         *)
(*   Spec         one call of upload, upload_grades, upload_files or       *)
(*                QuercusCourse.upload                                     *)
(*   TwoRunsSpec  upload called twice against a service with pure calls    *)
(*   CliSpec      one call of run, with what the user answers              *)
(*   ClientSpec   one call of post_grade, group_data_parser or upload_file *)
(*   PromptSpec   one prompt of the CLI, with what the user enters         *)
(*   CsvSpec      one call of prompt_get_csv                               *)
(*   SorterSpec   one call of filesorter                                   *)
(*   TokenSpec    one call of ensure_token                                 *)
(*   RosterSpec   remove_duplicates applied twice; get_id_utorid_map       *)
(***************************************************************************)
EXTENDS Integers, Sequences, FiniteSets, TLC

VARIABLES
    entry,       \* the function that was called
    mode,        \* argument `mode` of upload / QuercusCourse.upload
    grades,      \* argument `grades`: the dict, as its items() in order
    lookup_ids,  \* argument `lookup_ids`
    dirs,        \* argument `dirs`
    tree,        \* the file system: root -> entries, in rglob's order
    is_group,    \* assignment["group_category_id"] is not None
    pc,          \* position of the running call
    gi,          \* upload_grades: index of the next item of grades.items()
    li,          \* upload_files: index of the next lookup id
    files,       \* upload_files: `files` of the current lookup id
    fi,          \* upload_files: index of the next file of `files`
    grade_errors,\* error_list of upload_grades
    file_errors, \* error_list of upload_files
    error_list,  \* the value the entry point returns (meaningful at "done")
    calls,       \* requests made through the assignment client, in order
    client,      \* the remote service: request -> the replies it may give
    first,       \* <<what the first of two runs returned and requested>>
    course,      \* run(): `course`, as far as it has been loaded
    assignment,  \* run(): `assignment`, as far as it has been loaded
    round,       \* run(): number of times the while loop was restarted
    confirmed,   \* run(): the phases confirmed in this loop iteration
    upload_errors,\* run(): `upload_errors`
    returned,    \* run(): every error string an upload function returned
    displayed,   \* run(): the error strings echoed to the user
    version,     \* a client method is called: the QuercusAssignment class
    args,        \* a method or function is called on its own: its arguments
    http,        \* a client method is called: the requests and their replies
    outcome,     \* a method or function is called on its own: <<what it returned>>
    typed,       \* what the user has entered at the prompts, in order
    csv_file,    \* what the CSV files on the disk hold: header row and lines
    token_file,  \* TOKEN_FILE: <<>> when there is none, or <<its content>>
    environ,     \* os.environ: <<>> when CG_TOKEN is not set, or <<its value>>
    token,       \* ensure_token: `token`
    use_saved,   \* ensure_token: `use_saved`
    validated,   \* the tokens for which validate_token has returned True
    depth,       \* ensure_token: calls of itself it is inside of
    roster,      \* what the service lists as the students of the course
    cached_students \* QuercusCourse._students: <<>> before it is set

\* the state of run() (cli/uploading.py)
cli == <<course, assignment, round, confirmed, upload_errors, returned, displayed>>

\* the state of one call of a method of QuercusAssignment
wire == <<version, args, http, outcome>>

\* the state of the programs that are not part of the upload workflow
token_state == <<token_file, environ, token, use_saved, validated, depth>>

roster_state == <<roster, cached_students>>

others == <<typed, csv_file, token_state, roster_state>>

vars == <<entry, mode, grades, lookup_ids, dirs, tree, is_group, pc, gi, li,
          files, fi, grade_errors, file_errors, error_list, calls, client,
          first, cli, wire, others>>

inputs == <<entry, mode, grades, lookup_ids, dirs, tree, is_group, client>>

\* what the entry points of workflows.py leave alone
outer == <<first, cli, wire, others>>

\* the locals of upload, upload_grades and upload_files
locals == <<gi, li, files, fi, grade_errors, file_errors, error_list>>

-----------------------------------------------------------------------------
(* Bounds of the model.                                                    *)

MaxRows == 2        \* items in the grade dict
MaxLookup == 2      \* length of lookup_ids
MaxFailures == 1    \* client calls of one run that do not succeed
MaxRounds == 1      \* restarts of the while loop of run()

-----------------------------------------------------------------------------
(* UploadMode (workflows.py 29-34).                                        *)

GRADES == 0
FILES == 1
BOTH == 2

UploadMode == {GRADES, FILES, BOTH}

-----------------------------------------------------------------------------
(* Data.  Identifiers and file names are strings, modelled as sequences of *)
(* characters so that a glob can be matched against them.                  *)

\* an optional float: None, or the float
None == <<>>
Some(x) == <<x>>

IdA == <<"a">>
IdAB == <<"a", "b">>
Ids == {IdA, IdAB}

\* float grades; 0 is a grade, None is the absence of one
GradeValues == {None, Some(0), Some(95)}

NameAx == <<"a", "x">>
NameAbx == <<"a", "b", "x">>
NameXa == <<"x", "a">>
NameUpperAx == <<"A", "x">>

Roots == {"dirA", "dirB"}

\* Path objects: the root they were found under and their final component
Path(d, n) == [dir |-> d, name |-> n]

\* every sequence over S of length at most n
SeqsUpTo(S, n) == UNION {[1..k -> S] : k \in 0..n}

RECURSIVE Concat(_)
\* s[1] \o s[2] \o ... for a sequence of sequences
Concat(s) == IF s = <<>> THEN <<>> ELSE Head(s) \o Concat(Tail(s))

\* number of positions of s that satisfy Test
Count(s, Test(_)) == Len(SelectSeq(s, Test))

-----------------------------------------------------------------------------
(* The file system searched by search_dirs.                                *)

\* (variant: the pattern f"{idx}", without the star)
GlobMatchesExact(idx, name) == name = idx

\* pathlib's glob pattern f"{idx}*" against the final path component:
\* the component starts with idx
GlobMatches(idx, name) ==
    /\ Len(idx) <= Len(name)
    /\ SubSeq(name, 1, Len(idx)) = idx

\* list(d.rglob(f"{idx}*")) for one root d
Rglob(d, idx) ==
    LET Hit(n) == GlobMatches(idx, n)
        hits == SelectSeq(tree[d], Hit)
    IN  [k \in 1..Len(hits) |-> Path(d, hits[k])]

\* (variant: `output = matched_files`, each root replaces what was found)
search_dirs_last_root(idx, ds) ==
    IF ds = <<>> THEN <<>> ELSE Rglob(ds[Len(ds)], idx)

\* search_dirs(idx, dirs): output.extend(matched_files) for d in dirs
search_dirs(idx, ds) == Concat([k \in 1..Len(ds) |-> Rglob(ds[k], idx)])

Trees ==
    { [d \in Roots |-> IF d = "dirA" THEN <<NameAx, NameAbx>>
                                      ELSE <<NameXa, NameUpperAx>>],
      [d \in Roots |-> IF d = "dirA" THEN <<NameAbx>> ELSE <<NameAx, NameXa>>] }

-----------------------------------------------------------------------------
(* The assignment client (api_tools/assignments.py).  A request either     *)
(* raises inside the requests library (no connection, timeout after 10 s)  *)
(* or returns a response with a status code.                               *)

\* what a request gives: a response with a status code, or an exception
RequestException == <<>>
Response(status) == <<status>>

Replies == {Response(200), Response(404), RequestException}

\* how a call of a client method ends: with a returned bool, or raising
Raised == "raised"
Returned(b) == IF b THEN "True" ELSE "False"

\* requests.Response.ok
ResponseOk(r) == r[1] < 400

\* QuercusAssignment.post_grade: `return response.ok`, or the exception of r.put
post_grade(reply) ==
    IF reply = RequestException THEN Raised ELSE Returned(ResponseOk(reply))

\* QuercusAssignment.upload_file: `return response.ok` of the final PUT, or the
\* exception of one of its requests
upload_file(reply) ==
    IF reply = RequestException THEN Raised ELSE Returned(ResponseOk(reply))

Failed(c) == c.result # Returned(TRUE)

\* what the service tells requests apart by: the method called and the id
RequestKeys == {"post_grade", "upload_file"} \X Ids

\* a service whose answer to a request may differ from one call to the next
AnyClient == [k \in RequestKeys |-> Replies]

\* the services whose calls are pure: a request always gets the same answer
PureClients == [RequestKeys -> {{r} : r \in Replies}]
IsPure(c) == \A k \in RequestKeys : Cardinality(c[k]) = 1

\* the environment lets at most MaxFailures requests of one run go wrong,
\* unless the answers are fixed by a pure service
MayReply(reply) ==
    \/ IsPure(client)
    \/ reply = Response(200)
    \/ Count(calls, Failed) < MaxFailures

-----------------------------------------------------------------------------
(* Error messages: f"{sis_id}: \t <reason>"; the reason of a failed upload *)
(* carries f.name.                                                         *)

NoFile == <<>>
Msg(id, reason) == [id |-> id, reason |-> reason, file |-> NoFile]
MsgFile(id, reason, f) == [id |-> id, reason |-> reason, file |-> f.name]

MissingGrade == "Missing grade"
PostFailed == "Missing student or post failed"
NoFilesFound == "No files found"
FewerFiles == "Fewer files found than directories searched. Likely missing files."
UploadFailed == "Upload failed for"

-----------------------------------------------------------------------------
(* upload_grades (workflows.py 56-80).                                     *)

\* (variant: `if not grade`, which also holds of the grade 0)
GradeIsFalsy(grade) == grade = None \/ grade = Some(0)

\* line 71: `if grade is None`
GradeIsMissing(grade) == grade = None

\* lines 74-78: the try/except around post_grade; the returned bool is dropped
GradeErrorsAfterPost(errs, sis_id, result) ==
    IF result = Raised THEN Append(errs, Msg(sis_id, PostFailed)) ELSE errs

\* (variant: no try/except, the exception ends the loop)
NextGradeIndexFailFast(i, result) ==
    IF result = Raised THEN Len(grades) + 1 ELSE i + 1

\* (variant: the item is tried again after an exception)
NextGradeIndexRetry(i, result) == IF result = Raised THEN i ELSE i + 1

\* line 70: the for loop goes on to the next item whatever happened to this one
NextGradeIndex(i, result) == i + 1

\* (variant: a list that outlives the call, such as a mutable default)
KeptErrorList(old) == old

\* lines 69, 98, 135: `error_list = []`
NewErrorList(old) == <<>>

\* the call of upload_grades: its locals as lines 69-70 set them
EnterUploadGrades ==
    /\ pc' = "upload_grades"
    /\ gi' = 1
    /\ grade_errors' = NewErrorList(grade_errors)

CallUploadGrades ==
    /\ pc = "start"
    /\ entry = "upload_grades"
    /\ EnterUploadGrades
    /\ UNCHANGED <<inputs, outer, li, files, fi, file_errors, error_list, calls>>

UploadGradesMissing ==
    /\ pc = "upload_grades"
    /\ gi <= Len(grades)
    /\ GradeIsMissing(grades[gi].grade)
    /\ grade_errors' = Append(grade_errors, Msg(grades[gi].id, MissingGrade))
    /\ gi' = gi + 1
    /\ UNCHANGED <<inputs, outer, pc, li, files, fi, file_errors, error_list, calls>>

UploadGradesPost ==
    /\ pc = "upload_grades"
    /\ gi <= Len(grades)
    /\ ~GradeIsMissing(grades[gi].grade)
    /\ \E reply \in client[<<"post_grade", grades[gi].id>>] :
         /\ MayReply(reply)
         /\ LET sis_id == grades[gi].id
                result == post_grade(reply)
            IN  /\ calls' = Append(calls, [op |-> "post_grade", id |-> sis_id,
                                           arg |-> grades[gi].grade,
                                           item |-> gi, result |-> result])
                /\ grade_errors' = GradeErrorsAfterPost(grade_errors, sis_id, result)
                /\ gi' = NextGradeIndex(gi, result)
    /\ UNCHANGED <<inputs, outer, pc, li, files, fi, file_errors, error_list>>

-----------------------------------------------------------------------------
(* upload (workflows.py 116-143).                                          *)

\* line 137
RunsGrades(m) == m \in {GRADES, BOTH}
\* (variant: the numbering of QuercusCourse.upload, `mode in (0, 2)`)
RunsFilesOldNumbering(m) == m \in {0, 2}

\* line 140
RunsFiles(m) == m \in {FILES, BOTH}

\* (variant: the returned errors are put in front of those already there)
ExtendFront(list, errs) == errs \o list

\* lines 138, 141: error_list.extend(...)
Extend(list, errs) == list \o errs

\* the call of upload_files: its locals as lines 98-99 set them
EnterUploadFiles ==
    /\ pc' = "upload_files"
    /\ li' = 1
    /\ file_errors' = NewErrorList(file_errors)

CallUpload ==
    /\ pc = "start"
    /\ entry = "upload"
    /\ error_list' = NewErrorList(error_list)
    /\ IF RunsGrades(mode)
       THEN EnterUploadGrades /\ UNCHANGED <<li, file_errors>>
       ELSE IF RunsFiles(mode)
            THEN EnterUploadFiles /\ UNCHANGED <<gi, grade_errors>>
            ELSE pc' = "done" /\ UNCHANGED <<gi, li, grade_errors, file_errors>>
    /\ UNCHANGED <<inputs, outer, files, fi, calls>>

\* `return error_list` of upload_grades, and what its caller does with it
UploadGradesReturn ==
    /\ pc = "upload_grades"
    /\ entry # "run"
    /\ gi > Len(grades)
    /\ error_list' = Extend(error_list, grade_errors)
    /\ IF entry = "upload" /\ RunsFiles(mode)
       THEN EnterUploadFiles
       ELSE pc' = "done" /\ UNCHANGED <<li, file_errors>>
    /\ UNCHANGED <<inputs, outer, gi, files, fi, grade_errors, calls>>

-----------------------------------------------------------------------------
(* upload_files (workflows.py 83-113).                                     *)

\* line 102: `if not files`
NoFilesRecord(errs, lid, found) ==
    IF found = <<>> THEN Append(errs, Msg(lid, NoFilesFound)) ELSE errs

\* (variant: the warning only when more than one file is missing)
FewerThanDirsByTwo(found, ds) == Len(found) + 1 < Len(ds)

\* line 104: `if len(files) < len(dirs)`
FewerThanDirs(found, ds) == Len(found) < Len(ds)

\* lines 104-105
FewerFilesRecord(errs, lid, found, ds) ==
    IF FewerThanDirs(found, ds) THEN Append(errs, Msg(lid, FewerFiles)) ELSE errs

\* (variant: `if` without `else`, the files found are uploaded in any case)
UploadsFoundAlways(found, ds) == TRUE

\* lines 106-107: the else branch is the only place files are uploaded from
UploadsFound(found, ds) == ~FewerThanDirs(found, ds)

\* lines 108-112
FileErrorsAfterUpload(errs, lid, f, result) ==
    IF result = Raised THEN Append(errs, MsgFile(lid, UploadFailed, f)) ELSE errs

\* line 107: the for loop goes on to the next file whatever happened to this one
NextFileIndex(i, result) == i + 1

CallUploadFiles ==
    /\ pc = "start"
    /\ entry = "upload_files"
    /\ EnterUploadFiles
    /\ UNCHANGED <<inputs, outer, gi, files, fi, grade_errors, error_list, calls>>

\* lines 99-106 for one lookup id
UploadFilesSearch ==
    /\ pc = "upload_files"
    /\ li <= Len(lookup_ids)
    /\ LET lid == lookup_ids[li]
           found == search_dirs(lid, dirs)
       IN  /\ file_errors' = FewerFilesRecord(NoFilesRecord(file_errors, lid, found),
                                              lid, found, dirs)
           /\ files' = found
           /\ fi' = 1
           /\ IF UploadsFound(found, dirs) /\ found # <<>>
              THEN pc' = "upload_file" /\ li' = li
              ELSE pc' = pc /\ li' = li + 1
    /\ UNCHANGED <<inputs, outer, gi, grade_errors, error_list, calls>>

\* lines 107-112 for one file
UploadFile ==
    /\ pc = "upload_file"
    /\ \E reply \in client[<<"upload_file", lookup_ids[li]>>] :
         /\ MayReply(reply)
         /\ LET lid == lookup_ids[li]
                f == files[fi]
                result == upload_file(reply)
                next == NextFileIndex(fi, result)
            IN  /\ calls' = Append(calls, [op |-> "upload_file", id |-> lid,
                                           arg |-> f, item |-> li,
                                           result |-> result])
                /\ file_errors' = FileErrorsAfterUpload(file_errors, lid, f, result)
                /\ fi' = next
                /\ IF next > Len(files)
                   THEN pc' = "upload_files" /\ li' = li + 1
                   ELSE pc' = pc /\ li' = li
    /\ UNCHANGED <<inputs, outer, gi, files, grade_errors, error_list>>

UploadFilesReturn ==
    /\ pc = "upload_files"
    /\ entry # "run"
    /\ li > Len(lookup_ids)
    /\ error_list' = Extend(error_list, file_errors)
    /\ pc' = "done"
    /\ UNCHANGED <<inputs, outer, gi, li, files, fi, grade_errors, file_errors, calls>>

-----------------------------------------------------------------------------
(* Group assignments.  The grade file of a group assignment is keyed by    *)
(* group name; the users of a group are what the service lists for it.     *)

User1 == <<"u", "1">>
User2 == <<"u", "2">>
User3 == <<"u", "3">>

\* response.json() of GET groups/<group id>/users, as the sis_user_id of each
\* user: the group named "a" has three users, the group named "ab" has none
GroupUsers(name) == IF name = IdA THEN <<User1, User2, User3>> ELSE <<>>

\* QuercusAssignment.group_data_parser(group_info): one record per user
group_data_parser(group_info) ==
    LET users == GroupUsers(group_info.id)
    IN  [k \in 1..Len(users) |->
            [id |-> users[k], grade |-> group_info.grade,
             group_id |-> group_info.id]]

-----------------------------------------------------------------------------
(* QuercusCourse.upload (quercus_course.py 88-149).  __init__ (30-40)      *)
(* stores auth_key, course_id, endpoints, course_info and students; line   *)
(* 100 reads self.token, which no code of the class sets, so the call ends *)
(* in AttributeError before the assignment is loaded or a row is read.     *)

\* line 145: `if mode in (0, 1):  # Upload grades`
CourseUploadsGrades(m) == m \in {0, 1}

\* line 132: `if mode in (0, 2):  # Upload files`
CourseUploadsFiles(m) == m \in {0, 2}

CourseUpload ==
    /\ pc = "start"
    /\ entry = "course_upload"
    /\ pc' = Raised
    /\ UNCHANGED <<inputs, outer, gi, li, files, fi, grade_errors, file_errors,
                   error_list, calls>>

-----------------------------------------------------------------------------
(* The arguments of a call.                                                *)

Rows == [id : Ids, grade : GradeValues]

\* dicts: no key twice
GradeMaps ==
    {g \in SeqsUpTo(Rows, MaxRows) :
        \A i, j \in 1..Len(g) : i # j => g[i].id # g[j].id}

LookupLists == SeqsUpTo(Ids, MaxLookup)

\* the search roots given: none, one, two, and the same one twice
DirLists ==
    {<<>>, <<"dirA">>, <<"dirB">>, <<"dirA", "dirB">>, <<"dirB", "dirA">>,
     <<"dirA", "dirA">>}

Entries == {"upload", "upload_grades", "upload_files", "course_upload"}

\* nothing has been called yet
NotStarted ==
    /\ pc = "start"
    /\ gi = 1
    /\ li = 1
    /\ files = <<>>
    /\ fi = 1
    /\ grade_errors = <<>>
    /\ file_errors = <<>>
    /\ error_list = <<>>
    /\ calls = <<>>
    /\ first = <<>>
    /\ course = "unset"
    /\ assignment = "unset"
    /\ round = 0
    /\ confirmed = {}
    /\ upload_errors = <<>>
    /\ returned = <<>>
    /\ displayed = <<>>
    /\ http = <<>>
    /\ outcome = <<>>

\* ensure_token has not been called: no token file, CG_TOKEN not set
NoToken ==
    /\ token_file = <<>>
    /\ environ = <<>>
    /\ token = <<>>
    /\ use_saved = FALSE
    /\ validated = {}
    /\ depth = 0

\* no course has asked for its students
NoRoster ==
    /\ roster = <<>>
    /\ cached_students = <<>>

\* the programs that are not part of the upload workflow have not run: no
\* prompt has been answered and no CSV file is read
NoSession ==
    /\ typed = <<>>
    /\ csv_file = [fieldnames |-> <<>>, lines |-> <<>>]
    /\ NoToken
    /\ NoRoster

\* the workflows are given an assignment of cheesegrader.api_tools
NoMethodCall ==
    /\ version = "api_tools"
    /\ args = <<>>

Init ==
    /\ entry \in Entries
    /\ mode \in UploadMode
    /\ grades \in GradeMaps
    /\ lookup_ids \in LookupLists
    /\ dirs \in DirLists
    /\ tree \in Trees
    /\ is_group \in BOOLEAN
    \* upload_grades and upload_files take no mode and only their own inputs;
    \* QuercusCourse.upload takes no lookup ids; upload is given the
    \* identifiers of the grade dict as its lookup ids, as run() of
    \* cli/uploading.py does in mode BOTH (line 90)
    /\ entry = "upload_grades" => mode = GRADES /\ lookup_ids = <<>> /\ dirs = <<>>
    /\ entry = "upload_files" => mode = FILES /\ grades = <<>>
    /\ entry = "course_upload" => lookup_ids = <<>>
    /\ entry = "upload" => lookup_ids = [k \in 1..Len(grades) |-> grades[k].id]
    /\ client = AnyClient
    /\ NotStarted
    /\ NoMethodCall
    /\ NoSession

Next ==
    \/ CallUpload
    \/ CallUploadGrades
    \/ CallUploadFiles
    \/ UploadGradesMissing
    \/ UploadGradesPost
    \/ UploadGradesReturn
    \/ UploadFilesSearch
    \/ UploadFile
    \/ UploadFilesReturn
    \/ CourseUpload

Spec == Init /\ [][Next]_vars

-----------------------------------------------------------------------------
(* upload() called twice with the same arguments against a service whose   *)
(* calls are pure.  The second call starts when the first has returned;    *)
(* what the first returned and requested is kept in `first`.               *)

RunAgain ==
    /\ pc = "done"
    /\ first = <<>>
    /\ first' = <<[errors |-> error_list, calls |-> calls]>>
    /\ calls' = <<>>
    /\ pc' = "start"
    /\ UNCHANGED <<inputs, cli, wire, others, gi, li, files, fi, grade_errors,
                   file_errors, error_list>>

InitTwoRuns ==
    /\ entry = "upload"
    /\ mode \in UploadMode
    /\ grades \in GradeMaps
    /\ lookup_ids = [k \in 1..Len(grades) |-> grades[k].id]
    /\ dirs \in {<<"dirA">>, <<"dirB">>, <<"dirA", "dirB">>}
    /\ tree \in Trees
    /\ is_group = FALSE
    /\ client \in PureClients
    /\ NotStarted
    /\ NoMethodCall
    /\ NoSession

NextTwoRuns ==
    \/ CallUpload
    \/ UploadGradesMissing
    \/ UploadGradesPost
    \/ UploadGradesReturn
    \/ UploadFilesSearch
    \/ UploadFile
    \/ UploadFilesReturn
    \/ RunAgain

TwoRunsSpec == InitTwoRuns /\ [][NextTwoRuns]_vars

-----------------------------------------------------------------------------
(* run (cli/uploading.py 41-102), the interactive upload workflow.  The    *)
(* CSV file the user names holds the rows `grades` (prompt_get_csv keeps   *)
(* the id column, and the grade column when grades are asked for); the     *)
(* directories the user names are `dirs`.  upload_grades and upload_files  *)
(* are the functions of these names that run() imports from                *)
(* cheesegrader.utils, modelled by the ones of workflows.py applied to the *)
(* rows.  A loop iteration that ends in `continue` starts the next one.    *)

\* (variant: the exception is swallowed and the workflow goes on)
AfterSetupLenient(reply, next) == next

\* lines 46-47, 52-53: the request raises, or the body of an error response
\* has no "name" and reading it raises; either exception leaves run()
AfterSetup(reply, next) == IF reply = Response(200) THEN next ELSE Raised

Loaded(reply) == IF reply = Response(200) THEN "loaded" ELSE "failed"

\* lines 44-47
RunLoadCourse ==
    /\ entry = "run"
    /\ pc = "start"
    /\ \E reply \in Replies :
         /\ course' = Loaded(reply)
         /\ pc' = AfterSetup(reply, "run_assignment")
    /\ confirmed' = {}
    /\ UNCHANGED <<inputs, locals, calls, first, others, wire, assignment, round,
                   upload_errors, returned, displayed>>

\* lines 50-53
RunLoadAssignment ==
    /\ pc = "run_assignment"
    /\ \E reply \in Replies :
         /\ assignment' = Loaded(reply)
         /\ pc' = AfterSetup(reply, "run_mode")
    /\ UNCHANGED <<inputs, locals, calls, first, others, wire, course, round, confirmed,
                   upload_errors, returned, displayed>>

\* lines 70, 80: prompt_get_dirs() gives the directories, or raises.  Its
\* confirm("Add another directory?", default=False, abort=True) (line 134)
\* hands both keywords to typer.prompt (utils.py 76), which raises TypeError
\* where the library's prompt takes no keyword `abort`
DirsOutcomes(m) == IF m = GRADES THEN {"dirs"} ELSE {"dirs", Raised}

\* lines 56-61, 69-70, 79-80: prompt_mode, UploadMode(mode) (ValueError for a
\* number that is no mode), `upload_errors = []`, the CSV and the directories
RunSelectMode ==
    /\ pc = "run_mode"
    /\ \E m \in 0..3 :
         IF m \in UploadMode
         THEN /\ mode' = m
              /\ upload_errors' = <<>>
              /\ \E got \in DirsOutcomes(m) :
                    pc' = IF got = Raised THEN Raised
                          ELSE IF m = FILES THEN "run_confirm_files"
                          ELSE "run_confirm_grades"
         ELSE /\ pc' = Raised
              /\ UNCHANGED <<mode, upload_errors>>
    /\ UNCHANGED <<entry, grades, lookup_ids, dirs, tree, is_group, client,
                   locals, calls, first, others, wire, course, assignment, round, confirmed,
                   returned, displayed>>

\* lines 66, 76, 87, 94: `continue`
Continue ==
    /\ round < MaxRounds
    /\ round' = round + 1
    /\ pc' = "start"

\* (variant: the upload goes on whatever was answered)
ProceedsAnyway(response) == TRUE

\* lines 62, 72, 82, 89: `if prompt_confirm_..._upload(...)`
Proceeds(response) == response

\* the phases the user has confirmed in this loop iteration
Confirmed(old, phase, response) == IF response THEN old \cup {phase} ELSE old

\* lines 62-63, 82-83: prompt_confirm_grade_upload, then upload_grades is called
RunConfirmGrades ==
    /\ pc = "run_confirm_grades"
    /\ \E answer \in BOOLEAN :
         /\ confirmed' = Confirmed(confirmed, "grades", answer)
         /\ IF Proceeds(answer)
            THEN /\ EnterUploadGrades
                 /\ UNCHANGED round
            ELSE /\ Continue
                 /\ UNCHANGED <<gi, grade_errors>>
    /\ UNCHANGED <<inputs, li, files, fi, file_errors, error_list, calls, first, others,
                   wire, course, assignment, upload_errors, returned, displayed>>

\* lines 63-64, 83-84: upload_grades returns, upload_errors.extend(...)
RunGradesReturn ==
    /\ pc = "upload_grades"
    /\ entry = "run"
    /\ gi > Len(grades)
    /\ returned' = returned \o grade_errors
    /\ upload_errors' = Extend(upload_errors, grade_errors)
    /\ pc' = IF mode = BOTH THEN "run_confirm_files" ELSE "run_display"
    /\ UNCHANGED <<inputs, locals, calls, first, others, wire, course, assignment, round,
                   confirmed, displayed>>

\* lines 72-73, 89-90: prompt_confirm_file_upload, then upload_files is called
RunConfirmFiles ==
    /\ pc = "run_confirm_files"
    /\ \E answer \in BOOLEAN :
         /\ confirmed' = Confirmed(confirmed, "files", answer)
         /\ IF Proceeds(answer)
            THEN /\ EnterUploadFiles
                 /\ UNCHANGED round
            ELSE /\ Continue
                 /\ UNCHANGED <<li, file_errors>>
    /\ UNCHANGED <<inputs, gi, files, fi, grade_errors, error_list, calls, first, others,
                   wire, course, assignment, upload_errors, returned, displayed>>

\* line 73 (FILES): `errors = upload_files(...)`, and no more;
\* lines 90-91 (BOTH): upload_errors.extend(file_errors)
ErrorsAfterFiles(m, list, errs) == IF m = FILES THEN list ELSE Extend(list, errs)

RunFilesReturn ==
    /\ pc = "upload_files"
    /\ entry = "run"
    /\ li > Len(lookup_ids)
    /\ returned' = returned \o file_errors
    /\ upload_errors' = ErrorsAfterFiles(mode, upload_errors, file_errors)
    /\ pc' = "run_display"
    /\ UNCHANGED <<inputs, locals, calls, first, others, wire, course, assignment, round,
                   confirmed, displayed>>

\* lines 97-102: the errors are echoed and run() returns
RunDisplay ==
    /\ pc = "run_display"
    /\ displayed' = displayed \o upload_errors
    /\ pc' = "done"
    /\ UNCHANGED <<inputs, locals, calls, first, others, wire, course, assignment, round,
                   confirmed, upload_errors, returned>>

\* cli/utils.py 52-53: 'q' at a prompt of create_prompt raises typer.Exit
RunQuit ==
    /\ entry = "run"
    /\ pc \in {"start", "run_assignment", "run_mode"}
    /\ pc' = "exit"
    /\ UNCHANGED <<inputs, locals, calls, first, others, wire, cli>>

InitCli ==
    /\ entry = "run"
    /\ mode = GRADES        \* not read before RunSelectMode has set it
    /\ grades \in GradeMaps
    /\ lookup_ids = [k \in 1..Len(grades) |-> grades[k].id]
    /\ dirs \in {<<"dirA">>, <<"dirB">>, <<"dirA", "dirB">>}
    /\ tree \in Trees
    /\ is_group = FALSE
    /\ client = AnyClient
    /\ NotStarted
    /\ NoMethodCall
    /\ NoSession

NextCli ==
    \/ RunLoadCourse
    \/ RunLoadAssignment
    \/ RunSelectMode
    \/ RunConfirmGrades
    \/ UploadGradesMissing
    \/ UploadGradesPost
    \/ RunGradesReturn
    \/ RunConfirmFiles
    \/ UploadFilesSearch
    \/ UploadFile
    \/ RunFilesReturn
    \/ RunDisplay
    \/ RunQuit

CliSpec == InitCli /\ [][NextCli]_vars

-----------------------------------------------------------------------------
(* The methods of QuercusAssignment, called on their own.  `version` tells *)
(* the class of cheesegrader/api_tools/assignments.py from the earlier one *)
(* of quercus_assignment.py; `http` is the list of requests the call made, *)
(* each with the reply it got.                                             *)

Versions == {"api_tools", "legacy"}

\* float grades, as their number of hundredths (88.46 is 8846); none of
\* them is halfway between two tenths
Hundredths == {0, 7254, 8846, 9500}

\* f"{grade:.1f}": the nearest tenth, as its whole part and its tenths digit
Format1(h) ==
    LET t == (h + 5) \div 10
    IN  [whole |-> t \div 10, tenth |-> t % 10]

\* assignments.py 75, 117, 146: timeout=10; quercus_assignment.py gives none
Timeout == 10
TimeoutOf(v) == IF v = "api_tools" THEN <<Timeout>> ELSE <<>>

\* self.auth_key
AuthKey == "Authorization: Bearer token"

\* self.endpoints["submission"] + f"{sis_id}"
SubmissionUrl(sis_id) == [endpoint |-> "submission", id |-> sis_id]

\* self.endpoints["group_users"] + str(self.group_ids[name]) + "/users"
GroupUsersUrl(name) == [endpoint |-> "group_users", group |-> name]

\* assignments.py 144-146, quercus_assignment.py 161-163: the r.put of post_grade
PutGrade(v, sis_id, grade) ==
    [method |-> "PUT", url |-> SubmissionUrl(sis_id),
     data |-> [posted_grade |-> Format1(grade)],
     headers |-> AuthKey, timeout |-> TimeoutOf(v)]

\* assignments.py 112-117, quercus_assignment.py 128-136: the r.get of
\* group_data_parser
GetGroupUsers(v, name) ==
    [method |-> "GET", url |-> GroupUsersUrl(name),
     data |-> [per_page |-> 20],
     headers |-> AuthKey, timeout |-> TimeoutOf(v)]

\* the status codes a reply may carry, and the exception of the request
WireReplies == {Response(c) : c \in {200, 204, 304, 404, 500}} \cup {RequestException}

\* quercus_assignment.py 153-163: no return statement
legacy_post_grade(reply) == IF reply = RequestException THEN Raised ELSE "None"

PostGrade ==
    /\ entry = "post_grade"
    /\ pc = "start"
    /\ \E reply \in WireReplies :
         /\ http' = <<[request |-> PutGrade(version, args.sis_id, args.grade),
                       reply |-> reply]>>
         /\ LET r == IF version = "api_tools" THEN post_grade(reply)
                     ELSE legacy_post_grade(reply)
            IN  IF r = Raised
                THEN pc' = Raised /\ outcome' = <<>>
                ELSE pc' = "done" /\ outcome' = <<r>>
    /\ UNCHANGED <<inputs, locals, calls, first, others, cli, version, args>>

\* self.group_ids: quercus_assignment.py 53 sets it in __init__ (None when
\* the assignment has no group category); in assignments.py the assignment
\* is commented out (line 61) and no other code sets the attribute
HasGroupIds(v, group) == v = "legacy" /\ group

\* assignments.py 100-130, quercus_assignment.py 118-151.  Reading
\* self.group_ids raises when there is none; response.json() of a reply
\* without the list of users raises in the loop over it
GroupDataParser ==
    /\ entry = "group_data_parser"
    /\ pc = "start"
    /\ IF ~HasGroupIds(version, is_group)
       THEN /\ pc' = Raised
            /\ UNCHANGED <<http, outcome>>
       ELSE \E reply \in WireReplies :
              /\ http' = <<[request |-> GetGroupUsers(version, args.id),
                            reply |-> reply]>>
              /\ IF reply = Response(200)
                 THEN pc' = "done" /\ outcome' = <<group_data_parser(args)>>
                 ELSE pc' = Raised /\ outcome' = <<>>
    /\ UNCHANGED <<inputs, locals, calls, first, others, cli, version, args>>

\* a response with a JSON body is <<status, body>>, the body being <<the
\* object>>, or <<>> when it has none of the keys that are read from it.
\* What the service may answer to step 1: where to send the file, or not
SlotReplies ==
    {<<c, b>> : c \in {200, 404},
                b \in {<<>>} \cup {<<u>> : u \in [upload_url : {"urlA", "urlB"},
                                                 upload_params : {"paramsA", "paramsB"}]}}
        \cup {RequestException}

\* what the storage may answer to step 2: the id of the stored file, or not
StoredReplies ==
    {<<c, b>> : c \in {201, 500},
                b \in {<<>>} \cup {<<[id |-> x]>> : x \in {"fid1", "fid2"}}}
        \cup {RequestException}

\* assignments.py 164-175: step 1, the r.post of name and size to
\* self.endpoints["submission"] + f"{sis_id}" + the comments/files suffix
PostFileInfo(sis_id, f) ==
    [method |-> "POST",
     url |-> [endpoint |-> "submission_comments_files", id |-> sis_id],
     data |-> [name |-> f.name, size |-> f.size],
     headers |-> AuthKey, timeout |-> <<Timeout>>]

\* assignments.py 178-186: step 2, the r.post of the file to upload_url,
\* made without the `headers` argument
PostFile(slot, f) ==
    [method |-> "POST", url |-> slot.upload_url,
     data |-> slot.upload_params, files |-> [upload_file |-> f.name],
     headers |-> "no headers", timeout |-> <<Timeout>>]

\* assignments.py 189-200: step 3, the r.put that links the file to a comment
PutComment(sis_id, file_id) ==
    [method |-> "PUT", url |-> SubmissionUrl(sis_id),
     data |-> [file_ids |-> <<file_id>>, group_comment |-> "true"],
     headers |-> AuthKey, timeout |-> <<Timeout>>]

\* response.json()[key] raises when the request raised before it, and when
\* the body has no such key
HasJson(reply) == reply # RequestException /\ reply[2] # <<>>

\* assignments.py 164-178, 180: step 1, and reading upload_url and
\* upload_params from its response.  The class of quercus_assignment.py has
\* no method upload_file (its `upload` takes the directories to search): the
\* call is an AttributeError
UploadFileGetSlot ==
    /\ entry = "upload_file"
    /\ pc = "start"
    /\ IF version # "api_tools"
       THEN pc' = Raised /\ UNCHANGED http
       ELSE \E reply \in SlotReplies :
              /\ http' = <<[request |-> PostFileInfo(args.sis_id, args.filepath),
                            reply |-> reply]>>
              /\ pc' = IF HasJson(reply) THEN "upload_file_post" ELSE Raised
    /\ UNCHANGED <<inputs, locals, calls, first, others, cli, version, args, outcome>>

\* assignments.py 179-189: step 2, and reading the file id from its response
UploadFileSend ==
    /\ pc = "upload_file_post"
    /\ \E reply \in StoredReplies :
         /\ http' = Append(http, [request |-> PostFile(http[1].reply[2][1], args.filepath),
                                  reply |-> reply])
         /\ pc' = IF HasJson(reply) THEN "upload_file_put" ELSE Raised
    /\ UNCHANGED <<inputs, locals, calls, first, others, cli, version, args, outcome>>

\* assignments.py 190-202: step 3, and `return response.ok`
UploadFileLink ==
    /\ pc = "upload_file_put"
    /\ \E reply \in WireReplies :
         /\ http' = Append(http, [request |-> PutComment(args.sis_id, http[2].reply[2][1].id),
                                  reply |-> reply])
         /\ LET r == upload_file(reply)
            IN  IF r = Raised
                THEN pc' = Raised /\ outcome' = <<>>
                ELSE pc' = "done" /\ outcome' = <<r>>
    /\ UNCHANGED <<inputs, locals, calls, first, others, cli, version, args>>

InitClient ==
    /\ entry \in {"post_grade", "group_data_parser", "upload_file"}
    /\ version \in Versions
    /\ args \in CASE entry = "post_grade" -> [sis_id : Ids, grade : Hundredths]
                  [] entry = "group_data_parser" -> [id : Ids, grade : Hundredths]
                  \* a file: its name and what stat() says of its size
                  [] OTHER -> [sis_id : Ids,
                               filepath : {[name |-> NameAx, size |-> 10],
                                           [name |-> NameAbx, size |-> 0]}]
    /\ is_group \in BOOLEAN
    /\ mode = GRADES
    /\ grades = <<>>
    /\ lookup_ids = <<>>
    /\ dirs = <<>>
    /\ tree = [d \in Roots |-> <<>>]
    /\ client = AnyClient
    /\ NotStarted
    /\ NoSession

NextClient ==
    \/ PostGrade
    \/ GroupDataParser
    \/ UploadFileGetSlot
    \/ UploadFileSend
    \/ UploadFileLink

ClientSpec == InitClient /\ [][NextClient]_vars

-----------------------------------------------------------------------------
(* The prompts of the CLI (cli/utils.py 27-90): prompt = create_prompt(..) *)
(* and confirm = create_confirm(..), called on their own.  Both read what  *)
(* the user enters through typer.prompt.                                   *)

\* the upload workflow is not running
NoWorkflow ==
    /\ mode = GRADES
    /\ grades = <<>>
    /\ lookup_ids = <<>>
    /\ dirs = <<>>
    /\ tree = [d \in Roots |-> <<>>]
    /\ is_group = FALSE
    /\ client = AnyClient
    /\ NotStarted
    /\ version = "api_tools"

MaxTyped == 3       \* lines the user enters at one prompt

\* what the user may enter
Keys == {"y", "Yes", "n", " n ", "h", "q", "Q", "7", "x"}

\* str.lower()
Lower(s) ==
    CASE s = "Yes" -> "yes" [] s = "Q" -> "q" [] s = ".CSV" -> ".csv" [] OTHER -> s

\* str.strip()
Strip(s) == IF s = " n " THEN "n" ELSE s

\* click's conversion of the input to type=int
IsInteger(s) == s = "7"

\* utils.py 42-55, one line entered.  typer.prompt converts the line to the
\* type asked for and asks again when it cannot; a response that is no str
\* is returned as it is; after 'h' the help is shown and 'h' is returned
PatchedPrompt ==
    /\ entry = "create_prompt"
    /\ pc = "start"
    /\ Len(typed) < MaxTyped
    /\ \E key \in Keys :
         /\ typed' = Append(typed, key)
         /\ IF args.type = "int"
            THEN IF IsInteger(key)
                 THEN pc' = "done" /\ outcome' = <<key>>
                 ELSE pc' = pc /\ outcome' = outcome
            ELSE IF Lower(key) = "q"
                 THEN pc' = "exit" /\ outcome' = outcome
                 ELSE pc' = "done" /\ outcome' = <<key>>
    /\ UNCHANGED <<inputs, locals, calls, first, cli, version, args, http, csv_file,
                   token_state, roster_state>>

\* utils.py 67-88, one iteration of the while loop.  Line 86 builds the
\* exception typer.Exit() and does not raise it: the loop goes on
PatchedConfirm ==
    /\ entry = "create_confirm"
    /\ pc = "start"
    /\ Len(typed) < MaxTyped
    /\ \E key \in Keys :
         /\ typed' = Append(typed, key)
         /\ LET response == Lower(Strip(key))
            IN  CASE response \in {"y", "yes"} ->
                       pc' = "done" /\ outcome' = <<"True">>
                  [] response \in {"n", "no"} ->
                       pc' = "done" /\ outcome' = <<"False">>
                  [] OTHER ->
                       pc' = pc /\ outcome' = outcome
    /\ UNCHANGED <<inputs, locals, calls, first, cli, version, args, http, csv_file,
                   token_state, roster_state>>

InitPrompt ==
    /\ entry \in {"create_prompt", "create_confirm"}
    \* the prompts the CLI makes: prompt("..") and prompt("..", type=int)
    /\ args \in [type : IF entry = "create_prompt" THEN {"str", "int"} ELSE {"str"}]
    /\ NoWorkflow
    /\ NoSession

NextPrompt ==
    \/ PatchedPrompt
    \/ PatchedConfirm

PromptSpec == InitPrompt /\ [][NextPrompt]_vars

-----------------------------------------------------------------------------
(* prompt_get_csv (cli/uploading.py 193-241), called on its own.  The disk *)
(* holds grades.csv, GRADES.CSV and grades.txt, all three with the content *)
(* csv_file; the user enters a path at each turn of the while loop.        *)

MaxCsvLines == 2    \* lines after the header row of a CSV file

\* what the user may enter at "Enter Student List CSV Path"
PathKeys ==
    {"grades.csv", "\"grades.csv\"", "GRADES.CSV", "grades.txt", "missing.csv", "q"}

\* lines 206-208: strip(), strip('"'), Path(..)
Unquote(s) == IF s = "\"grades.csv\"" THEN "grades.csv" ELSE s

\* Path.exists()
Exists(p) == p \in {"grades.csv", "GRADES.CSV", "grades.txt"}

\* Path.suffix
Suffix(p) ==
    CASE p \in {"grades.csv", "missing.csv"} -> ".csv"
      [] p = "GRADES.CSV" -> ".CSV"
      [] p = "grades.txt" -> ".txt"
      [] OTHER -> ""

\* lines 211-216: the path is refused and the loop starts again
PathRefused(p) == ~Exists(p) \/ Lower(Suffix(p)) # ".csv"

\* a file is its header row and the lines after it, as their cells.  An
\* empty file has no header row (fieldnames is None); <<>> is a blank line
CsvFiles ==
    {c \in [fieldnames : {<<>>, <<"id", "grade">>, <<"grade", "id">>,
                          <<"id", "mark">>, <<"utorid", "mark">>},
            lines : SeqsUpTo({<<>>, <<"a">>, <<"a", "7">>, <<"b", "9">>},
                             MaxCsvLines)] :
        c.fieldnames = <<>> => c.lines = <<>>}

HeaderNames(row) == {row[k] : k \in 1..Len(row)}

\* csv.DictReader, dict(zip(fieldnames, line)): the value of a column is the
\* cell of the last field of that name, None (restval) where the line is short
DictValue(fieldnames, line, name) ==
    LET k == CHOOSE i \in 1..Len(fieldnames) :
                 /\ fieldnames[i] = name
                 /\ \A j \in (i + 1)..Len(fieldnames) : fieldnames[j] # name
    IN  IF k <= Len(line) THEN Some(line[k]) ELSE None

\* (variant: the user is asked for the column of every required header)
MapHeaderAsked(required_header, fieldnames, selected) == selected

\* lines 227-233: header_map[required_header]
MapHeader(required_header, fieldnames, selected) ==
    IF required_header \notin HeaderNames(fieldnames) THEN selected
    ELSE required_header

\* lines 237-239: cleaned_data
CleanedData(c, header_map) ==
    \* csv.DictReader: a blank line gives no row
    LET data == SelectSeq(c.lines, LAMBDA line : line # <<>>)
    IN  [k \in 1..Len(data) |->
            [required_name \in DOMAIN header_map |->
                DictValue(c.fieldnames, data[k], header_map[required_name])]]

\* one turn of the while loop of lines 204-241.  'q' at the prompt raises
\* typer.Exit; `required_header not in headers` raises TypeError when the
\* file is empty and headers is None; prompt_select_header (181-190) returns
\* headers[selection] for a selection in range and asks again otherwise
PromptGetCsv ==
    /\ entry = "prompt_get_csv"
    /\ pc = "start"
    /\ Len(typed) < MaxTyped
    /\ \E key \in PathKeys :
         /\ typed' = Append(typed, key)
         /\ LET path == Unquote(Strip(key))
                headers == csv_file.fieldnames
            IN  CASE Lower(key) = "q" -> pc' = "exit" /\ outcome' = outcome
                  [] Lower(key) # "q" /\ PathRefused(path) ->
                       pc' = pc /\ outcome' = outcome
                  [] Lower(key) # "q" /\ ~PathRefused(path) /\ headers = <<>> ->
                       pc' = Raised /\ outcome' = outcome
                  [] OTHER ->
                       \E selection \in [args.required_headers -> 1..Len(headers)] :
                          LET header_map ==
                                  [h \in args.required_headers |->
                                      MapHeader(h, headers, headers[selection[h]])]
                          IN  /\ pc' = "done"
                              /\ outcome' = <<[rows |-> CleanedData(csv_file, header_map),
                                               path |-> path,
                                               header_map |-> header_map]>>
    /\ UNCHANGED <<inputs, locals, calls, first, cli, version, args, http, csv_file,
                   token_state, roster_state>>

InitCsv ==
    /\ entry = "prompt_get_csv"
    /\ args \in [required_headers : {{"id"}, {"id", "grade"}}]
    /\ csv_file \in CsvFiles
    /\ typed = <<>>
    /\ NoWorkflow
    /\ NoToken
    /\ NoRoster

CsvSpec == InitCsv /\ [][PromptGetCsv]_vars

-----------------------------------------------------------------------------
(* filesorter (file_utils.py 60-117), called on its own with one sort      *)
(* column.  A row of the student list is its identifier (column id_col)    *)
(* and the value of the sort column.                                       *)

MaxStudents == 2    \* rows of the student list

StudentRows == [id : Ids, sort : {<<"s">>, <<"a">>}]

\* the names in the input folder
FolderNames == {NameAx, NameAbx, NameXa, <<"x">>}

\* lines 96-102: the folder of the row, row[1].iloc[x] + "_", is made under
\* output_dir when one is given and under the input folder otherwise
FolderAfterMkdir(folder, row, output_dir) ==
    IF output_dir = "given" THEN folder ELSE folder \cup {row.sort \o <<"_">>}

\* glob's pattern f"*{id}*" against a name: the name holds id somewhere
GlobContains(idx, name) ==
    \E i \in 0..(Len(name) - Len(idx)) : SubSeq(name, i + 1, i + Len(idx)) = idx

\* lines 91-117.  The return statement of line 117 is inside the for loop:
\* the call returns at the end of the first row, and returns None when the
\* list has no row.  shutil.copy and shutil.move are called without a
\* destination (lines 113, 115), which is a TypeError for the first match
FileSorter ==
    /\ entry = "filesorter"
    /\ pc = "start"
    /\ IF args.student_df = <<>>
       THEN pc' = "done" /\ outcome' = <<>>
       ELSE LET row == args.student_df[1]
                folder == FolderAfterMkdir(args.input_folder, row, args.output_dir)
                \* line 106: glob.glob(f"*{id}*", root_dir=input_folder)
                matches == {n \in folder : GlobContains(row.id, n)}
            IN  IF matches = {}
                THEN pc' = "done" /\ outcome' = <<<<row.id>>>>
                ELSE pc' = Raised /\ outcome' = outcome
    /\ UNCHANGED <<inputs, locals, calls, first, cli, version, args, http, others>>

InitSorter ==
    /\ entry = "filesorter"
    /\ args \in [student_df : SeqsUpTo(StudentRows, MaxStudents),
                 input_folder : SUBSET FolderNames,
                 output_dir : {"given", "not given"}]
    /\ NoWorkflow
    /\ NoSession

SorterSpec == InitSorter /\ [][FileSorter]_vars

-----------------------------------------------------------------------------
(* ensure_token (cli/token.py 19-51) with load_token, save_token (54-65)   *)
(* and validate_token (api_tools/tokens.py 17-29).  `return                *)
(* ensure_token()` is the last thing the caller does: a call of itself is  *)
(* a new start, counted in `depth`.  What the user enters is logged in      *)
(* `typed`: "y" or "n" for a confirmation, the token for the token prompt.  *)

MaxAttempts == 2    \* calls of ensure_token inside one another

Tokens == {"t1", "t2"}

\* token.py 54-60: the token of the file, None when the file is no JSON
load_token(file) == IF file[1] = "not json" THEN None ELSE Some(file[1])

\* token.py 63-65: TOKEN_FILE.write_text(json.dumps({"token": token}))
save_token(t) == t

\* line 30: `if not token`
NoTokenYet(t) == t = None \/ t = Some("")

\* tokens.py 20-29: True for status 200, False for any other status and for
\* a RequestException
validate_token(reply) == reply = Response(200)

YesNo(b) == IF b THEN "y" ELSE "n"

\* (variant: the token is taken whatever validate_token returned)
AfterValidationLenient(valid) == "save"

\* lines 35-42: an invalid token is a new call of ensure_token
AfterValidation(valid) == IF valid THEN "save" ELSE "start"

\* lines 21-32: the saved token if there is one and the user wants it,
\* otherwise the token the user enters
EnsureTokenStart ==
    /\ entry = "ensure_token"
    /\ pc = "start"
    /\ \E answer \in (IF token_file # <<>> THEN BOOLEAN ELSE {FALSE}), t \in Tokens :
         LET found == token_file # <<>>
             loaded == IF answer THEN load_token(token_file) ELSE None
         IN  /\ use_saved' = answer
             /\ token' = IF NoTokenYet(loaded) THEN Some(t) ELSE loaded
             /\ typed' = typed \o (IF found THEN <<YesNo(answer)>> ELSE <<>>)
                               \o (IF NoTokenYet(loaded) THEN <<t>> ELSE <<>>)
    /\ pc' = "validate"
    /\ UNCHANGED <<inputs, locals, calls, first, cli, wire, csv_file, roster_state,
                   token_file, environ, validated, depth>>

\* lines 34-42
EnsureTokenValidate ==
    /\ pc = "validate"
    /\ \E reply \in Replies :
         LET valid == validate_token(reply)
             next == AfterValidation(valid)
         IN  /\ validated' = IF valid THEN validated \cup {token[1]} ELSE validated
             /\ pc' = next
             /\ IF next = "start"
                THEN depth < MaxAttempts /\ depth' = depth + 1
                ELSE depth' = depth
    /\ UNCHANGED <<inputs, locals, calls, first, cli, wire, typed, csv_file,
                   roster_state, token_file, environ, token, use_saved>>

\* lines 44-51.  confirm(.., default=True) of line 45 gives what the user
\* answered, or raises: the default goes to typer.prompt (utils.py 76),
\* which converts the answer to the type of the default where the library
\* does so; the response is then a bool and `.strip()` raises AttributeError
EnsureTokenSave ==
    /\ pc = "save"
    /\ IF use_saved
       THEN /\ environ' = token
            /\ pc' = "done"
            /\ UNCHANGED <<typed, token_file>>
       ELSE \E save_new \in BOOLEAN, got \in {"answered", Raised} :
              /\ typed' = Append(typed, YesNo(save_new))
              /\ IF got = Raised
                 THEN /\ pc' = Raised
                      /\ UNCHANGED <<token_file, environ>>
                 ELSE /\ token_file' = IF save_new THEN save_token(token)
                                       ELSE token_file
                      /\ environ' = token
                      /\ pc' = "done"
    /\ UNCHANGED <<inputs, locals, calls, first, cli, wire, csv_file, roster_state,
                   token, use_saved, validated, depth>>

InitToken ==
    /\ entry = "ensure_token"
    /\ args = <<>>
    \* TOKEN_FILE may hold {"token": t}, {"token": ""} or no JSON at all
    /\ token_file \in {<<>>} \cup {<<c>> : c \in Tokens \cup {"", "not json"}}
    /\ environ \in {<<>>, <<"t0">>}
    /\ token = None
    /\ use_saved = FALSE
    /\ validated = {}
    /\ depth = 0
    /\ typed = <<>>
    /\ csv_file = [fieldnames |-> <<>>, lines |-> <<>>]
    /\ NoWorkflow
    /\ NoRoster

NextToken ==
    \/ EnsureTokenStart
    \/ EnsureTokenValidate
    \/ EnsureTokenSave

TokenSpec == InitToken /\ [][NextToken]_vars

-----------------------------------------------------------------------------
(* remove_duplicates (api_tools/courses.py 94-103), called on its own and  *)
(* by the property QuercusCourse.students (40-47), which get_id_utorid_map *)
(* (83-91) reads.                                                          *)

MaxRoster == 3      \* entries the service lists for a course

\* entry.get("id") is None when the entry has no id
RosterEntries == [id : {None, Some(1), Some(2)}, sis_user_id : {"u1", "u2"}]

RECURSIVE KeepLast(_)
\* (variant: of the entries with one id the last is kept)
KeepLast(data) ==
    IF data = <<>> THEN <<>>
    ELSE LET rest == Tail(data)
         IN  IF \E k \in 1..Len(rest) : rest[k].id = Head(data).id
             THEN KeepLast(rest)
             ELSE <<Head(data)>> \o KeepLast(rest)

remove_duplicates_last(data) == KeepLast(data)

RECURSIVE RemoveFrom(_, _, _)
\* lines 98-102: the for loop, from the entries still to come, seen_ids and
\* unique_data
RemoveFrom(data, seen_ids, unique_data) ==
    IF data = <<>> THEN unique_data
    ELSE LET canvas_id == Head(data).id
         IN  IF canvas_id \notin seen_ids
             THEN RemoveFrom(Tail(data), seen_ids \cup {canvas_id},
                             Append(unique_data, Head(data)))
             ELSE RemoveFrom(Tail(data), seen_ids, unique_data)

\* lines 94-103
remove_duplicates(data) == RemoveFrom(data, {}, <<>>)

\* remove_duplicates(roster)
RemoveDuplicates ==
    /\ entry = "remove_duplicates"
    /\ pc = "start"
    /\ outcome' = <<remove_duplicates(roster)>>
    /\ pc' = "once"
    /\ UNCHANGED <<inputs, locals, calls, first, cli, version, args, http, typed,
                   csv_file, token_state, roster_state>>

\* remove_duplicates(remove_duplicates(roster))
RemoveDuplicatesAgain ==
    /\ entry = "remove_duplicates"
    /\ pc = "once"
    /\ outcome' = Append(outcome, remove_duplicates(outcome[1]))
    /\ pc' = "done"
    /\ UNCHANGED <<inputs, locals, calls, first, cli, version, args, http, typed,
                   csv_file, token_state, roster_state>>

\* lines 43-47: the first read of course.students asks the service and keeps
\* remove_duplicates(response.json()); the request may raise, and the body
\* of an error response is no list of entries (entry.get raises)
Students ==
    /\ entry = "get_id_utorid_map"
    /\ pc = "start"
    /\ cached_students = <<>>
    /\ \E reply \in Replies :
         IF reply = Response(200)
         THEN cached_students' = <<remove_duplicates(roster)>> /\ pc' = "students"
         ELSE cached_students' = cached_students /\ pc' = Raised
    /\ UNCHANGED <<inputs, locals, calls, first, cli, wire, typed, csv_file,
                   token_state, roster>>

\* lines 85-91: id_utorid_map[str(s.get("id", ""))] = s.get("sis_user_id", ""),
\* a later entry with the same id replacing an earlier one
GetIdUtoridMap ==
    /\ entry = "get_id_utorid_map"
    /\ pc = "students"
    /\ LET list == cached_students[1]
           Last(i) == CHOOSE k \in 1..Len(list) :
                          /\ list[k].id = i
                          /\ \A j \in (k + 1)..Len(list) : list[j].id # i
       IN  outcome' = <<[i \in {list[k].id : k \in 1..Len(list)} |->
                            list[Last(i)].sis_user_id]>>
    /\ pc' = "done"
    /\ UNCHANGED <<inputs, locals, calls, first, cli, version, args, http, typed,
                   csv_file, token_state, roster_state>>

InitRoster ==
    /\ entry \in {"remove_duplicates", "get_id_utorid_map"}
    /\ args = <<>>
    /\ roster \in SeqsUpTo(RosterEntries, MaxRoster)
    /\ cached_students = <<>>
    /\ typed = <<>>
    /\ csv_file = [fieldnames |-> <<>>, lines |-> <<>>]
    /\ NoWorkflow
    /\ NoToken

NextRoster ==
    \/ RemoveDuplicates
    \/ RemoveDuplicatesAgain
    \/ Students
    \/ GetIdUtoridMap

RosterSpec == InitRoster /\ [][NextRoster]_vars

-----------------------------------------------------------------------------
(* What a run did, read off the log of client calls.                       *)

IsPost(c) == c.op = "post_grade"
IsUpload(c) == c.op = "upload_file"
HasRaised(c) == c.result = Raised

PostCalls == SelectSeq(calls, IsPost)
UploadCalls == SelectSeq(calls, IsUpload)

\* the call without its outcome
Request(c) == [op |-> c.op, id |-> c.id, arg |-> c.arg, item |-> c.item]
Requests(s) == [k \in 1..Len(s) |-> Request(s[k])]

PostRequest(i) ==
    [op |-> "post_grade", id |-> grades[i].id, arg |-> grades[i].grade, item |-> i]
UploadRequest(l, f) ==
    [op |-> "upload_file", id |-> lookup_ids[l], arg |-> f, item |-> l]

Posted(i) == \E k \in 1..Len(calls) : Request(calls[k]) = PostRequest(i)
Uploaded(l, f) == \E k \in 1..Len(calls) : Request(calls[k]) = UploadRequest(l, f)

Found(l) == search_dirs(lookup_ids[l], dirs)

\* items of grades whose iteration is over, lookup ids whose iteration is over
RowsDone == 1..(gi - 1)
IdsDone == 1..(li - 1)

\* the grade phase, or the file phase, is part of the run that was asked for
GradesAsked == entry = "upload_grades" \/ (entry = "upload" /\ mode \in {GRADES, BOTH})
FilesAsked == entry = "upload_files" \/ (entry = "upload" /\ mode \in {FILES, BOTH})

\* the records of errs with this reason
WithReason(errs, reason) ==
    LET Is(m) == m.reason = reason IN SelectSeq(errs, Is)
\* the records of errs about this identifier
About(errs, id) ==
    LET Is(m) == m.id = id IN SelectSeq(errs, Is)

-----------------------------------------------------------------------------
\* C1. Mode gating: upload() with mode GRADES never calls upload_file and
\* never enters the file phase; with mode FILES it never calls post_grade and
\* never enters the grade phase; with mode BOTH a finished run has gone
\* through all of grades and all of lookup_ids, and returns the errors of both.
ModeGating ==
    entry = "upload" =>
        /\ mode = GRADES =>
               UploadCalls = <<>> /\ pc \notin {"upload_files", "upload_file"}
        /\ mode = FILES => PostCalls = <<>> /\ pc # "upload_grades"
        /\ mode = BOTH /\ pc = "done" =>
               /\ gi = Len(grades) + 1
               /\ li = Len(lookup_ids) + 1
               /\ error_list = grade_errors \o file_errors

\* a finished GRADES run whose lookup ids do have files that could be uploaded
ModeGatingWitness ==
    /\ entry = "upload"
    /\ mode = GRADES
    /\ pc = "done"
    /\ PostCalls # <<>>
    /\ \E l \in 1..Len(lookup_ids) : Found(l) # <<>> /\ Len(Found(l)) >= Len(dirs)

-----------------------------------------------------------------------------
-----------------------------------------------------------------------------
\* C3. A failed grade post is always reported: whenever post_grade raised or
\* returned False for an identifier, the error list of upload_grades holds a
\* "Missing student or post failed" record for that identifier.
FailedPostReported ==
    \A k \in 1..Len(calls) :
        IsPost(calls[k]) /\ Failed(calls[k]) =>
            About(WithReason(grade_errors, PostFailed), calls[k].id) # <<>>

-----------------------------------------------------------------------------
\* C4. Every located file is uploaded: for every lookup id whose iteration is
\* over, upload_file was called for each file search_dirs returned for it,
\* also when there are fewer files than directories.
EveryLocatedFileUploaded ==
    \A l \in IdsDone : \A k \in 1..Len(Found(l)) : Uploaded(l, Found(l)[k])

-----------------------------------------------------------------------------
\* C5. An identifier without any file gets exactly one record, "No files
\* found", and no upload_file call; upload_files for a single such lookup id
\* returns exactly that one-element list.
NoFilesExactlyOneRecord ==
    /\ \A l \in IdsDone :
           Found(l) = <<>> /\ Count(lookup_ids, LAMBDA x : x = lookup_ids[l]) = 1 =>
               /\ About(file_errors, lookup_ids[l]) = <<Msg(lookup_ids[l], NoFilesFound)>>
               /\ \A k \in 1..Len(calls) : IsUpload(calls[k]) => calls[k].item # l
    /\ entry = "upload_files" /\ pc = "done" /\ Len(lookup_ids) = 1 /\ Found(1) = <<>> =>
           error_list = <<Msg(lookup_ids[1], NoFilesFound)>>

-----------------------------------------------------------------------------
\* C6. Completeness: every identifier of a phase whose iteration is over was
\* either processed successfully (no record about it) or has exactly one
\* record in the errors of that phase; none is dropped without a record and
\* none has two records.
Completeness ==
    /\ \A i \in RowsDone :
           LET about == About(grade_errors, grades[i].id)
               ok == \E k \in 1..Len(calls) :
                        /\ Request(calls[k]) = PostRequest(i)
                        /\ calls[k].result = Returned(TRUE)
           IN  IF ok THEN about = <<>> ELSE Len(about) = 1
    /\ \A l \in IdsDone :
           Count(lookup_ids, LAMBDA x : x = lookup_ids[l]) = 1 =>
               LET about == About(file_errors, lookup_ids[l])
                   ok == /\ Found(l) # <<>>
                         /\ \A j \in 1..Len(Found(l)) :
                                \E k \in 1..Len(calls) :
                                    /\ Request(calls[k]) = UploadRequest(l, Found(l)[j])
                                    /\ calls[k].result = Returned(TRUE)
               IN  IF ok THEN about = <<>> ELSE Len(about) = 1

-----------------------------------------------------------------------------
\* C7. Missing grade handling: an item whose grade is None gets one "Missing
\* grade" record and no post_grade call; an item whose grade is 0 is posted
\* with the grade 0 and gets no "Missing grade" record, like any other grade.
MissingGradeHandling ==
    \A i \in RowsDone :
        LET missing == About(WithReason(grade_errors, MissingGrade), grades[i].id)
            posts == SelectSeq(PostCalls, LAMBDA c : c.item = i)
        IN  IF grades[i].grade = None
            THEN missing = <<Msg(grades[i].id, MissingGrade)>> /\ posts = <<>>
            ELSE missing = <<>> /\ Requests(posts) = <<PostRequest(i)>>

\* a finished run over an item without a grade and an item with the grade 0
MissingGradeWitness ==
    /\ pc = "done"
    /\ \E i, j \in RowsDone :
           /\ grades[i].grade = None
           /\ grades[j].grade = Some(0)
           /\ Posted(j)

-----------------------------------------------------------------------------
\* C8. Exactly once, no retry: the post_grade calls of a run are, in order,
\* one call for each item with a grade whose turn has come, with that grade;
\* no located file of a lookup id is sent more often than search_dirs
\* returned it; a call that did not succeed is not made again; and when no
\* call of the grade phase failed, what upload_grades returns is exactly the
\* "Missing grade" records of the items without a grade, in order.
RECURSIVE PostsUpTo(_)
PostsUpTo(n) ==
    IF n = 0 THEN <<>>
    ELSE PostsUpTo(n - 1) \o
         (IF grades[n].grade = None THEN <<>> ELSE <<PostRequest(n)>>)

RECURSIVE MissingUpTo(_)
MissingUpTo(n) ==
    IF n = 0 THEN <<>>
    ELSE MissingUpTo(n - 1) \o
         (IF grades[n].grade = None THEN <<Msg(grades[n].id, MissingGrade)>> ELSE <<>>)

-----------------------------------------------------------------------------
\* C9. Group fan-out: when the assignment is a group assignment, a finished
\* run of upload or upload_grades that was asked to post grades has called
\* post_grade exactly once per member of each group row that has a grade,
\* with the group's grade, in row order.
GroupFanOut ==
    is_group /\ pc = "done" /\ GradesAsked =>
        LET members == Concat([i \in 1..Len(grades) |->
                                  IF grades[i].grade = None
                                  THEN <<>> ELSE group_data_parser(grades[i])])
        IN  [k \in 1..Len(PostCalls) |-> <<PostCalls[k].id, PostCalls[k].arg>>]
                = [k \in 1..Len(members) |-> <<members[k].id, members[k].grade>>]

-----------------------------------------------------------------------------
\* C10. A group row that expands to zero members is reported: when a run of
\* upload or upload_grades that was asked to post grades is over, the errors
\* returned hold a record for the group identifier (it is not a silent no-op).
EmptyGroupReported ==
    is_group /\ pc = "done" /\ GradesAsked =>
        \A i \in 1..Len(grades) :
            group_data_parser(grades[i]) = <<>> =>
                About(error_list, grades[i].id) # <<>>

-----------------------------------------------------------------------------
\* C12. Error ordering: what upload() returns is the errors of the grade
\* phase followed by the errors of the file phase; every step only adds
\* records at the end of a list, the grade records about the item of
\* grades.items() whose turn it is, the file records about the lookup id whose
\* turn it is and, for a failed upload, about the located file whose turn it
\* is; the turns only move forward, and no grade record is added once the file
\* phase has recorded or sent anything.
IsPrefix(old, new) == Len(old) <= Len(new) /\ SubSeq(new, 1, Len(old)) = old
Added(old, new) == SubSeq(new, Len(old) + 1, Len(new))

ErrorOrderingStep ==
    /\ gi' >= gi
    /\ li' >= li
    /\ li' = li /\ pc' = "upload_file" /\ pc = "upload_file" => fi' > fi
    /\ IsPrefix(grade_errors, grade_errors')
    /\ IsPrefix(file_errors, file_errors')
    /\ LET added == Added(grade_errors, grade_errors')
       IN  added # <<>> =>
               /\ \A k \in 1..Len(added) : added[k].id = grades[gi].id
               /\ gi' = gi + 1
               /\ file_errors = <<>>
               /\ UploadCalls = <<>>
    /\ LET added == Added(file_errors, file_errors')
       IN  \A k \in 1..Len(added) :
               /\ added[k].id = lookup_ids[li]
               /\ added[k].reason = UploadFailed => added[k].file = files[fi].name

ErrorOrdering ==
    /\ [](pc = "done" /\ entry = "upload" => error_list = grade_errors \o file_errors)
    /\ [][ErrorOrderingStep]_vars

\* a finished run of upload in mode BOTH with a grade record, a failed upload
\* of one identifier and a "No files found" record of another
ErrorOrderingWitness ==
    /\ pc = "done"
    /\ entry = "upload"
    /\ mode = BOTH
    /\ grade_errors # <<>>
    /\ \E j, k \in 1..Len(file_errors) :
           /\ file_errors[j].reason = UploadFailed
           /\ file_errors[k].reason = NoFilesFound
           /\ file_errors[j].id # file_errors[k].id

-----------------------------------------------------------------------------
\* C13. Partial coverage warning: every lookup id whose iteration is over and
\* for which search_dirs returned fewer files than there are search roots has
\* a "Fewer files found than directories searched" record.
PartialCoverageWarning ==
    \A l \in IdsDone :
        Len(Found(l)) < Len(dirs) =>
            About(WithReason(file_errors, FewerFiles), lookup_ids[l]) # <<>>

\* a finished run in which one file was found for an identifier in two roots
PartialCoverageWitness ==
    /\ pc = "done"
    /\ FilesAsked
    /\ Len(dirs) = 2
    /\ \E l \in 1..Len(lookup_ids) : Len(Found(l)) = 1

-----------------------------------------------------------------------------
\* C14. A failed file upload is always reported: whenever upload_file raised
\* or returned False for a lookup id and a file, the errors of upload_files
\* hold an "Upload failed for <file name>" record of that id and file.
FailedUploadReported ==
    \A k \in 1..Len(calls) :
        IsUpload(calls[k]) /\ Failed(calls[k]) =>
            \E j \in 1..Len(file_errors) :
                file_errors[j] = MsgFile(calls[k].id, UploadFailed, calls[k].arg)

-----------------------------------------------------------------------------
(* The result of the last search_dirs call of upload_files is in `files`.  *)

\* upload_files has called search_dirs
HasSearched == FilesAsked /\ (pc = "upload_file" \/ li > 1)
\* the identifier it was last called with
SearchedId == IF pc = "upload_file" THEN lookup_ids[li] ELSE lookup_ids[li - 1]

\* the identifier occurs in the name as a contiguous run of characters
Contains(idx, name) ==
    \E i \in 1..(Len(name) - Len(idx) + 1) :
        \A j \in 1..Len(idx) : name[i + j - 1] = idx[j]

\* the name begins with the characters of the identifier
BeginsWith(idx, name) ==
    /\ Len(idx) <= Len(name)
    /\ \A j \in 1..Len(idx) : name[j] = idx[j]

\* the entries under the roots searched
Searchable ==
    UNION {{Path(dirs[r], tree[dirs[r]][k]) : k \in 1..Len(tree[dirs[r]])} :
              r \in 1..Len(dirs)}
FilesReturned == {files[k] : k \in 1..Len(files)}

-----------------------------------------------------------------------------
-----------------------------------------------------------------------------
\* C17. File locator aggregation: the result of search_dirs is, root after
\* root in the order of dirs, what the search of that root gave, every entry
\* of it and in its order (a root given twice contributes twice); with no
\* match in any root the result is the empty list and nothing is raised.
RECURSIVE MatchesBefore(_, _)
\* number of matches in the roots before position r
MatchesBefore(idx, r) ==
    IF r = 1 THEN 0
    ELSE MatchesBefore(idx, r - 1) + Len(Rglob(dirs[r - 1], idx))

Aggregation ==
    HasSearched =>
        LET idx == SearchedId
        IN  /\ Len(files) = MatchesBefore(idx, Len(dirs) + 1)
            /\ \A r \in 1..Len(dirs) :
                   LET hits == Rglob(dirs[r], idx)
                       before == MatchesBefore(idx, r)
                   IN  \A k \in 1..Len(hits) : files[before + k] = hits[k]
            /\ pc # Raised

\* a search over two different roots that both hold a match
AggregationWitness ==
    /\ HasSearched
    /\ Len(dirs) = 2
    /\ dirs[1] # dirs[2]
    /\ \E j, k \in 1..Len(files) : files[j].dir # files[k].dir

-----------------------------------------------------------------------------
\* C18. Determinism: when upload() has been called twice with the same
\* arguments against a service whose calls are pure, the second call returns
\* the error list the first returned (same records, same order) and has made
\* the same client calls, with the same outcomes, in the same order.
Determinism ==
    pc = "done" /\ first # <<>> =>
        /\ error_list = first[1].errors
        /\ calls = first[1].calls

\* a second run that is over, after a first one that returned errors of both
\* phases and made calls that failed
DeterminismWitness ==
    /\ pc = "done"
    /\ first # <<>>
    /\ mode = BOTH
    /\ WithReason(first[1].errors, MissingGrade) # <<>>
    /\ WithReason(first[1].errors, UploadFailed) # <<>>
    /\ \E k \in 1..Len(first[1].calls) : first[1].calls[k].result = Returned(FALSE)

-----------------------------------------------------------------------------
-----------------------------------------------------------------------------
\* C15. Setup failures are fatal and happen first: a client call is only made
\* when the course and the assignment have both been loaded; a step in which
\* loading the course or the assignment fails ends run() with an exception
\* and makes no client call; and nothing is done after run() was left so.
SetupFirstStep ==
    /\ calls' # calls => course = "loaded" /\ assignment = "loaded"
    /\ (course' = "failed" /\ course # "failed")
         \/ (assignment' = "failed" /\ assignment # "failed")
           => pc' = Raised /\ calls' = calls
    /\ pc # Raised

SetupFirst == [][SetupFirstStep]_vars

\* run() was left because the assignment could not be loaded, in a loop
\* iteration that follows one in which grades were posted
SetupFirstWitness ==
    /\ entry = "run"
    /\ pc = Raised
    /\ course = "loaded"
    /\ assignment = "failed"
    /\ PostCalls # <<>>

-----------------------------------------------------------------------------
\* C19. Group member records: when group_data_parser was called with a group
\* row {id, grade} of a group assignment and the service answered the request
\* for the users of the group (or none was made), the call has returned
\* exactly one record per member of the group, in order, each with the
\* member's identifier, the grade of the row and the id of the row as group_id.
GroupMemberRecords ==
    /\ entry = "group_data_parser"
    /\ is_group
    /\ pc \in {"done", Raised}
    /\ (http = <<>> \/ http[1].reply = Response(200))
    => /\ pc = "done"
       /\ LET members == GroupUsers(args.id)
              records == outcome[1]
          IN  /\ Len(records) = Len(members)
              /\ \A k \in 1..Len(members) :
                     records[k] = [id |-> members[k], grade |-> args.grade,
                                   group_id |-> args.id]

-----------------------------------------------------------------------------
\* C20. post_grade(id, grade) of the package's client has made exactly one
\* request when it is over: a PUT to the submission endpoint of the id, with
\* the grade rounded to the nearest tenth as submission[posted_grade], the
\* authorization header and a timeout of 10 seconds; and it returns True
\* exactly when the status of the response is 2xx, False otherwise.
Is2xx(reply) == reply # RequestException /\ reply[1] >= 200 /\ reply[1] <= 299

\* the tenth nearest to a number of hundredths
NearestTenth(h) == CHOOSE t \in 0..1000 : 10 * t - 5 <= h /\ h < 10 * t + 5

PostGradeContract ==
    entry = "post_grade" /\ version = "api_tools" /\ pc \in {"done", Raised} =>
        /\ Len(http) = 1
        /\ LET request == http[1].request
               tenth == NearestTenth(args.grade)
           IN  /\ request.method = "PUT"
               /\ request.url = [endpoint |-> "submission", id |-> args.sis_id]
               /\ request.data = [posted_grade |->
                                     [whole |-> tenth \div 10, tenth |-> tenth % 10]]
               /\ request.headers = AuthKey
               /\ request.timeout = <<10>>
        /\ pc = "done" =>
               outcome = <<IF Is2xx(http[1].reply) THEN "True" ELSE "False">>

-----------------------------------------------------------------------------
\* C21. upload_file(id, path) of the package's client makes its requests in
\* this order: a POST of the name and size of the file to the comments/files
\* endpoint of the id's submission; a POST of the file to the upload_url the
\* first response gave, with the upload_params it gave; a PUT to the id's
\* submission endpoint with the file id the second response gave as
\* comment[file_ids] and group_comment "true".  The PUT is only made when the
\* second response has given a file id, and the call returns True exactly
\* when the status of the response to the PUT is 2xx.
UploadFileHandshake ==
    entry = "upload_file" /\ version = "api_tools" =>
        /\ Len(http) <= 3
        /\ Len(http) >= 1 =>
               LET request == http[1].request
               IN  /\ request.method = "POST"
                   /\ request.url = [endpoint |-> "submission_comments_files",
                                     id |-> args.sis_id]
                   /\ request.data = [name |-> args.filepath.name,
                                      size |-> args.filepath.size]
        /\ Len(http) >= 2 =>
               LET request == http[2].request
                   given == http[1].reply[2][1]
               IN  /\ request.method = "POST"
                   /\ request.url = given.upload_url
                   /\ request.data = given.upload_params
                   /\ request.files = [upload_file |-> args.filepath.name]
        /\ Len(http) >= 3 =>
               LET request == http[3].request
               IN  /\ http[2].reply # RequestException
                   /\ http[2].reply[2] # <<>>
                   /\ request.method = "PUT"
                   /\ request.url = [endpoint |-> "submission", id |-> args.sis_id]
                   /\ request.data = [file_ids |-> <<http[2].reply[2][1].id>>,
                                      group_comment |-> "true"]
        /\ pc = "done" =>
               /\ Len(http) = 3
               /\ outcome = <<IF Is2xx(http[3].reply) THEN "True" ELSE "False">>

-----------------------------------------------------------------------------
\* C22. Quit at any time: a step in which the user enters 'q' (or 'Q') at a
\* prompt made through create_prompt or at a confirmation made through
\* create_confirm ends the call with typer.Exit: no answer is returned and
\* the question is not asked again.
QuitAtAnyTimeStep ==
    /\ entry \in {"create_prompt", "create_confirm"}
    /\ Len(typed') = Len(typed) + 1
    /\ Lower(typed'[Len(typed')]) = "q"
    => pc' = "exit"

QuitAtAnyTime == [][QuitAtAnyTimeStep]_vars

-----------------------------------------------------------------------------
\* C23. When prompt_get_csv(required_headers) has returned: there is one row
\* per data line of the CSV file, in the order of the file; every row has
\* exactly the required headers as keys, the value of a key being the cell of
\* the column that header_map gives for it; header_map has an entry for every
\* required header, the header itself when the file has a column of that
\* name and a column of the file otherwise.  A step in which the user names a
\* path that does not exist or whose suffix is not .csv (in either case)
\* returns nothing and leaves the prompt to be asked again.
CsvColumns == HeaderNames(csv_file.fieldnames)
CsvDataLines == SelectSeq(csv_file.lines, LAMBDA line : line # <<>>)

\* the cell of data line k in the column of this name
CsvCell(k, name) ==
    LET line == CsvDataLines[k]
        Col == {i \in 1..Len(csv_file.fieldnames) : csv_file.fieldnames[i] = name}
    IN  {IF i <= Len(line) THEN <<line[i]>> ELSE <<>> : i \in Col}

IsCsvPath(p) == p \in {"grades.csv", "GRADES.CSV"}

CsvReturned ==
    entry = "prompt_get_csv" /\ pc = "done" =>
        LET rows == outcome[1].rows
            header_map == outcome[1].header_map
            required == args.required_headers
        IN  /\ Len(rows) = Len(CsvDataLines)
            /\ DOMAIN header_map = required
            /\ \A h \in required :
                   /\ h \in CsvColumns => header_map[h] = h
                   /\ h \notin CsvColumns => header_map[h] \in CsvColumns
            /\ \A k \in 1..Len(rows) :
                   /\ DOMAIN rows[k] = required
                   /\ \A h \in required : rows[k][h] \in CsvCell(k, header_map[h])

CsvRefusedStep ==
    /\ entry = "prompt_get_csv"
    /\ Len(typed') = Len(typed) + 1
    /\ LET p == Unquote(typed'[Len(typed')])
       IN  p # "q" /\ ~IsCsvPath(p)
    => pc' = "start" /\ outcome' = <<>>

PromptGetCsvContract == []CsvReturned /\ [][CsvRefusedStep]_vars

\* a call that has returned after a path was refused, for a file that lacks
\* the column "grade" and has a blank line and a short line
PromptGetCsvWitness ==
    /\ entry = "prompt_get_csv"
    /\ pc = "done"
    /\ Len(typed) > 1
    /\ args.required_headers = {"id", "grade"}
    /\ csv_file.fieldnames = <<"id", "mark">>
    /\ outcome[1].header_map["grade"] = "mark"
    /\ csv_file.lines = <<<<>>, <<"a">>>>
    /\ outcome[1].rows = <<[id |-> <<"a">>, grade |-> <<>>]>>

-----------------------------------------------------------------------------
\* C24. When QuercusCourse.upload, called with mode 0 for an assignment that
\* is no group assignment and confirmed by the user, is over, post_grade has
\* been called once for every row of the grade file, in the order of the
\* rows, and upload_file for every file that file_lookup finds for the id of
\* a row.
CourseUploadAllRows ==
    entry = "course_upload" /\ mode = 0 /\ ~is_group /\ pc # "start" =>
        /\ Len(PostCalls) = Len(grades)
        /\ \A k \in 1..Len(grades) :
               /\ PostCalls[k].id = grades[k].id
               /\ PostCalls[k].arg = grades[k].grade
               /\ LET looked_up == search_dirs(grades[k].id, dirs)
                  IN  \A j \in 1..Len(looked_up) :
                         \E c \in 1..Len(UploadCalls) :
                            /\ UploadCalls[c].id = grades[k].id
                            /\ UploadCalls[c].arg = looked_up[j]

-----------------------------------------------------------------------------
\* C25. When filesorter is over it has gone through every row of the student
\* list and has returned the identifiers of the rows for which the input
\* folder holds no file with the identifier in its name, one entry per such
\* row, in the order of the rows, and none for a row with such a file.
SorterMissing ==
    LET NoMatch(row) ==
            \A n \in args.input_folder :
                \A i \in 1..Len(n) :
                    \E j \in 1..Len(row.id) : i + j - 1 > Len(n) \/ n[i + j - 1] # row.id[j]
        unmatched == SelectSeq(args.student_df, NoMatch)
    IN  [k \in 1..Len(unmatched) |-> unmatched[k].id]

SorterReturnsMissing ==
    entry = "filesorter" /\ pc # "start" =>
        /\ pc = "done"
        /\ outcome = <<SorterMissing>>

-----------------------------------------------------------------------------
\* C26. The "fewer files than roots" check and the upload branch of
\* upload_files exclude each other: for a lookup id with fewer files located
\* than there are roots no upload_file call is made, for any of its files;
\* for a lookup id with at least as many files as roots no "Likely missing
\* files" record is made.
UploadedFor(l) == \E k \in 1..Len(calls) : IsUpload(calls[k]) /\ calls[k].item = l

BranchesExclusive ==
    \A l \in 1..Len(lookup_ids) :
        /\ Len(Found(l)) < Len(dirs) => ~UploadedFor(l)
        /\ Len(Found(l)) >= Len(dirs) =>
               About(WithReason(file_errors, FewerFiles), lookup_ids[l]) = <<>>

\* a finished upload_files over two roots: one identifier has a single file,
\* which was not uploaded; the other has two, both uploaded without warning
BranchesExclusiveWitness ==
    /\ entry = "upload_files"
    /\ pc = "done"
    /\ Len(dirs) = 2
    /\ \E l \in 1..Len(lookup_ids) :
           /\ Len(Found(l)) = 1
           /\ ~UploadedFor(l)
           /\ About(WithReason(error_list, FewerFiles), lookup_ids[l]) # <<>>
    /\ \E l \in 1..Len(lookup_ids) :
           /\ Len(Found(l)) = 2
           /\ Len(SelectSeq(calls, LAMBDA c : c.item = l)) = 2
           /\ About(error_list, lookup_ids[l]) = <<>>

-----------------------------------------------------------------------------
\* C27. No upload without confirmation: run() enters upload_grades only in
\* the step in which prompt_confirm_grade_upload returned true, and
\* upload_files only in the step in which prompt_confirm_file_upload returned
\* true; a client call of a phase is only made when that phase was confirmed
\* in the current loop iteration, which starts with nothing confirmed; a
\* confirmation that is declined makes no client call and takes the workflow
\* back to the course prompt.
IsLastCall(op) == calls' # calls /\ calls'[Len(calls')].op = op

ConfirmedUploadStep ==
    /\ pc # "upload_grades" /\ pc' = "upload_grades" =>
           pc = "run_confirm_grades" /\ "grades" \in confirmed'
    /\ pc \notin {"upload_files", "upload_file"} /\ pc' = "upload_files" =>
           pc = "run_confirm_files" /\ "files" \in confirmed'
    /\ IsLastCall("post_grade") => "grades" \in confirmed
    /\ IsLastCall("upload_file") => "files" \in confirmed
    /\ pc = "run_confirm_grades" /\ "grades" \notin confirmed' =>
           pc' = "start" /\ calls' = calls
    /\ pc = "run_confirm_files" /\ "files" \notin confirmed' =>
           pc' = "start" /\ calls' = calls
    /\ pc' \in {"run_assignment", "run_mode"} => confirmed' = {}

NoUploadWithoutConfirmation == [][entry = "run" => ConfirmedUploadStep]_vars

\* run() is over in mode BOTH with both phases confirmed and client calls of
\* both phases made, in a loop iteration that follows a declined confirmation
NoUploadWithoutConfirmationWitness ==
    /\ entry = "run"
    /\ pc = "done"
    /\ round = 1
    /\ mode = BOTH
    /\ confirmed = {"grades", "files"}
    /\ PostCalls # <<>>
    /\ UploadCalls # <<>>

-----------------------------------------------------------------------------
\* C28. The two upload paths agree on what a mode number means: for the mode
\* m that QuercusCourse.upload is called with, its loop posts grades exactly
\* when UploadMode(m) is GRADES or BOTH, and uploads files exactly when
\* UploadMode(m) is FILES or BOTH (0 grades only, 1 files only, 2 both).
ModeNumbersAgree ==
    entry = "course_upload" =>
        /\ CourseUploadsGrades(mode) <=> RunsGrades(mode)
        /\ CourseUploadsFiles(mode) <=> RunsFiles(mode)
        /\ RunsGrades(mode) <=> mode \in {0, 2}
        /\ RunsFiles(mode) <=> mode \in {1, 2}

-----------------------------------------------------------------------------
\* C29. ensure_token only accepts a validated token: a step that sets
\* CG_TOKEN or writes the token file stores the current token, and
\* validate_token has returned True for it; a step in which validate_token
\* returns False stores nothing and starts ensure_token again, which begins
\* with a prompt; the token file is only written when the saved token was not
\* used and the user has just answered yes to saving.
ValidatedTokenStep ==
    /\ environ' # environ =>
           pc = "save" /\ environ' = token /\ token[1] \in validated
    /\ token_file' # token_file =>
           /\ pc = "save"
           /\ token_file' = token
           /\ token[1] \in validated
           /\ ~use_saved
           /\ Len(typed') = Len(typed) + 1
           /\ typed'[Len(typed')] = "y"
    /\ pc = "validate" /\ token[1] \notin validated' =>
           pc' = "start" /\ environ' = environ /\ token_file' = token_file
    /\ pc = "start" => Len(typed') > Len(typed)

ValidatedTokenOnly == [][entry = "ensure_token" => ValidatedTokenStep]_vars

\* the user entered t1, which was refused, then t2, which was validated, and
\* agreed to save it: the file and CG_TOKEN hold t2
ValidatedTokenOnlyWitness ==
    /\ entry = "ensure_token"
    /\ pc = "done"
    /\ typed = <<"t1", "t2", "y">>
    /\ validated = {"t2"}
    /\ token_file = <<"t2">>
    /\ environ = <<"t2">>

-----------------------------------------------------------------------------
\* C30. remove_duplicates keeps, of the entries with one Canvas id, exactly
\* the first, and keeps the entries it keeps in the order they had; applied
\* to its own result it returns that result; and the list behind
\* QuercusCourse.students, which get_id_utorid_map reads, has no two entries
\* with the same Canvas id.
FirstOccurrences ==
    {i \in 1..Len(roster) : \A j \in 1..(i - 1) : roster[j].id # roster[i].id}

\* kept is the entries of roster at the first occurrences, in their order
IsFirstOccurrences(kept) ==
    /\ Len(kept) = Cardinality(FirstOccurrences)
    /\ \A i \in FirstOccurrences :
           kept[Cardinality({j \in FirstOccurrences : j <= i})] = roster[i]

NoIdTwice(kept) ==
    \A i, j \in 1..Len(kept) : i # j => kept[i].id # kept[j].id

DuplicatesRemoved ==
    /\ entry = "remove_duplicates" /\ pc \in {"once", "done"} =>
           IsFirstOccurrences(outcome[1]) /\ NoIdTwice(outcome[1])
    /\ entry = "remove_duplicates" /\ pc = "done" => outcome[2] = outcome[1]
    /\ entry = "get_id_utorid_map" /\ cached_students # <<>> =>
           IsFirstOccurrences(cached_students[1]) /\ NoIdTwice(cached_students[1])

\* remove_duplicates was applied twice to a list whose first and third entry
\* have one id and differ, with an entry of another id between them
DuplicatesRemovedWitness ==
    /\ entry = "remove_duplicates"
    /\ pc = "done"
    /\ Len(roster) = 3
    /\ roster[1].id = roster[3].id
    /\ roster[1] # roster[3]
    /\ roster[2].id # roster[1].id
    /\ outcome[1] = <<roster[1], roster[2]>>

====
